---- MODULE Spec2Model ----
(***************************************************************************)
(* EquiLease (src/equilease.py): the deal store (load_deals, save_deals,   *)
(* save_deal, get_deal_by_id, update_deal_status), the risk scoring and    *)
(* terms functions, and the creation flow of show_tenant_form.             *)
(*                                                                         *)
(* Conventions.                                                            *)
(*  - A Python dict is a TLA+ function whose DOMAIN is the dict's key set, *)
(*    so an absent key is a name outside the DOMAIN.                       *)
(*  - Numbers rounded to one decimal (the three percentages) are held in   *)
(*    tenths: 435 stands for 43.5.  Whole-unit amounts are integers.       *)
(*  - datetime.now() is a read of `clock` that may find it advanced.       *)
(*  - uuid.uuid4() is the next value of a source that never repeats.       *)
(***************************************************************************)
EXTENDS Integers, Sequences, FiniteSets, TLC

\* ------------------------------------------------------------------------
\* Bounds of the model
\* ------------------------------------------------------------------------
\* number of applications that can be submitted (uuid4 values issued)
MaxDeals == 2
\* the clock runs over 0..MaxClock
MaxClock == 1
\* number of save_deal and update_deal_status calls in one run
MaxCalls == 3
\* risk scores handed to generate_deal_terms range over 50 +/- ScoreSpan
ScoreSpan == 90
\* space sizes handed to generate_deal_terms run from the form's minimum over
\* SpaceSpan further square feet
SpaceSpan == 60
\* the clock of the two renderers runs over 0..MaxRenderClock
MaxRenderClock == 4

\* ------------------------------------------------------------------------
\* Python dict and arithmetic helpers
\* ------------------------------------------------------------------------
EmptyDict == <<>>

Get(d, k, default) == IF k \in DOMAIN d THEN d[k] ELSE default

Put(d, k, v) == [x \in (DOMAIN d) \cup {k} |-> IF x = k THEN v ELSE d[x]]

\* {**a, **b}: the keys of both, b's value where both have the key
Merge(a, b) == [x \in (DOMAIN a) \cup (DOMAIN b) |-> IF x \in DOMAIN b THEN b[x] ELSE a[x]]

Max(a, b) == IF a >= b THEN a ELSE b

Min(a, b) == IF a <= b THEN a ELSE b

\* int(n/d) for n >= 0, d > 0: the fraction dropped instead of rounded
RoundDown(n, d) == n \div d

\* round(n/d, 0) for d > 0: to nearest, ties to the even neighbour
RoundHalfEven(n, d) ==
    LET q == n \div d
        r == n % d
    IN  IF 2 * r < d THEN q
        ELSE IF 2 * r > d THEN q + 1
        ELSE IF q % 2 = 0 THEN q ELSE q + 1

\* ------------------------------------------------------------------------
\* calculate_risk_score
\* ------------------------------------------------------------------------
BaseScore == 50

business_type_risk ==
    ("SaaS Startup" :> -10) @@ ("E-commerce" :> -5) @@
    ("Professional Services" :> -8) @@ ("Manufacturing" :> 0) @@
    ("Restaurant" :> 25) @@ ("Retail Store" :> 15) @@
    ("Franchise" :> -5) @@ ("Other" :> 10)

industry_risk ==
    ("Technology" :> -8) @@ ("Healthcare" :> -5) @@ ("Finance" :> -3) @@
    ("Education" :> 0) @@ ("Food & Beverage" :> 20) @@ ("Retail" :> 12) @@
    ("Real Estate" :> 5) @@ ("Other" :> 8)

experience_impact ==
    ("Previous successful exit" :> -20) @@ ("Serial entrepreneur" :> -15) @@
    ("Industry veteran (10+ years)" :> -12) @@ ("First-time founder" :> 10)

BusinessTypeAdj(bd) ==
    Get(business_type_risk, Get(bd, "business_type", "Other"), 0)

IndustryAdj(bd) ==
    Get(industry_risk, Get(bd, "industry", "Other"), 0)

RevenueAdj(bd) ==
    LET current_revenue == Get(bd, "current_revenue", 0)
    IN  IF current_revenue > 10000 THEN -15
        ELSE IF current_revenue > 5000 THEN -10
        ELSE IF current_revenue > 1000 THEN -5
        ELSE 10

TeamSizeAdj(bd) ==
    LET team_size == Get(bd, "team_size", 1)
    IN  IF team_size > 20 THEN -10
        ELSE IF team_size > 10 THEN -8
        ELSE IF team_size > 5 THEN -5
        ELSE IF team_size < 2 THEN 15
        ELSE 0

FundingAdj(bd) ==
    IF Get(bd, "has_funding", FALSE)
    THEN LET funding_amount == Get(bd, "funding_raised", 0)
         IN  IF funding_amount > 1000000 THEN -20
             ELSE IF funding_amount > 500000 THEN -15
             ELSE IF funding_amount > 100000 THEN -10
             ELSE -5
    ELSE 0

\* the runway block with the < 3 test ahead of the < 6 test
RunwayAdjLowFirst(bd) ==
    LET runway == Get(bd, "runway_months", 0)
    IN  IF runway > 18 THEN -10
        ELSE IF runway > 12 THEN -5
        ELSE IF runway < 3 THEN 25
        ELSE IF runway < 6 THEN 15
        ELSE 0

RunwayAdj(bd) ==
    LET runway == Get(bd, "runway_months", 0)
    IN  IF runway > 18 THEN -10
        ELSE IF runway > 12 THEN -5
        ELSE IF runway < 6 THEN 15
        ELSE IF runway < 3 THEN 25
        ELSE 0

ExperienceAdj(bd) ==
    Get(experience_impact, Get(bd, "founder_experience", "First-time founder"), 0)

MarketValidationAdj(bd) ==
    (IF Get(bd, "has_customers", FALSE) THEN -10 ELSE 0)
    + (IF Get(bd, "has_revenue", FALSE) THEN -8 ELSE 0)

SpaceSizeAdj(bd) ==
    LET space_size == Get(bd, "space_size", 1000)
    IN  IF space_size > 5000 THEN 8
        ELSE IF space_size > 3000 THEN 5
        ELSE IF space_size < 500 THEN -3
        ELSE 0

\* max(5, min(95, base_score)) without the upper limit
FinalScoreNoCeiling(base_score) == Max(5, base_score)

\* final_score = max(5, min(95, base_score)); round(final_score, 1).
\* Every adjustment is a whole number, so base_score is a Python int and
\* round(int, 1) returns it unchanged.
FinalScore(base_score) == Max(5, Min(95, base_score))

calculate_risk_score(bd) ==
    FinalScore(BaseScore + BusinessTypeAdj(bd) + IndustryAdj(bd) + RevenueAdj(bd)
               + TeamSizeAdj(bd) + FundingAdj(bd) + RunwayAdj(bd)
               + ExperienceAdj(bd) + MarketValidationAdj(bd) + SpaceSizeAdj(bd))

\* ------------------------------------------------------------------------
\* generate_deal_terms
\* ------------------------------------------------------------------------
\* ClampedOver50 with the weight subtracted: a sign slip in the risk multiplier
ClampedOver50Inverted(base, weight, lo, hi, risk_score) ==
    Max(lo * 50, Min(hi * 50, base * 50 - weight * (risk_score - 50)))

\* base + risk_multiplier * weight with risk_multiplier = (risk_score - 50) / 50,
\* clamped to [lo, hi]; the value is returned as a numerator over 50.
ClampedOver50(base, weight, lo, hi, risk_score) ==
    Max(lo * 50, Min(hi * 50, base * 50 + weight * (risk_score - 50)))

\* round(x, 1) of a numerator over 50, in tenths
RoundTenths(over50) == RoundHalfEven(10 * over50, 50)

RevenueShareYears(bd) ==
    IF Get(bd, "business_type", "") \in {"SaaS Startup", "E-commerce"} THEN 4
    ELSE IF Get(bd, "business_type", "") = "Restaurant" THEN 2
    ELSE 3

generate_deal_terms(bd, risk_score) ==
    LET upfront == ClampedOver50(30, 15, 20, 50, risk_score)
        equity == ClampedOver50(5, 4, 2, 12, risk_score)
        revenue_share == ClampedOver50(3, 2, 1, 6, risk_score)
        space_size == Get(bd, "space_size", 1000)
        annual_market_rent == space_size * 25
        current_revenue == Get(bd, "current_revenue", 0)
    IN  [ risk_score |-> risk_score,
          upfront_rent_percent |-> RoundTenths(upfront),
          equity_percent |-> RoundTenths(equity),
          revenue_share_percent |-> RoundTenths(revenue_share),
          revenue_share_years |-> RevenueShareYears(bd),
          \* monthly_market_rent * (upfront_rent_percent / 100)
          \*   = annual_market_rent / 12 * upfront / (50 * 100)
          \* The quotient is taken exactly.  Where it is exactly a half the
          \* float product of the code can lie on either side of it, and
          \* round() then returns either neighbour.
          monthly_rent |-> RoundHalfEven(annual_market_rent * upfront, 60000),
          monthly_market_rent |-> RoundHalfEven(annual_market_rent, 12),
          deferred_amount |-> RoundHalfEven(annual_market_rent * (5000 - upfront), 60000),
          annual_market_rent |-> annual_market_rent,
          \* max(current_revenue * 1.5, 5000)
          revenue_trigger |-> RoundHalfEven(Max(3 * current_revenue, 10000), 2),
          space_size |-> space_size ]

\* ------------------------------------------------------------------------
\* create_deal_proposal: the figures the text is rendered from
\* ------------------------------------------------------------------------
RiskCategory(risk_score) ==
    IF risk_score < 40 THEN "LOW RISK"
    ELSE IF risk_score < 70 THEN "MEDIUM RISK"
    ELSE "HIGH RISK"

\* strftime('%B %d, %Y at %I:%M %p'): the minute a time lies in.  The clock of
\* the model ticks twice a minute.
MinuteOf(now) == now \div 2

\* strftime('%B %d, %Y'): the day a time lies in.  A day of the model lasts
\* four ticks, so that a run can cross midnight.
DayOf(now) == now \div 4

\* create_deal_proposal with the proposal id taken from the time of the call
create_deal_proposal_timed_id(bd, deal_terms, now_generated, now_valid) ==
    [ generated |-> MinuteOf(now_generated),
      proposal_id |-> now_generated,
      valid_until |-> DayOf(now_valid) + 30,
      business_type |-> bd["business_type"],
      risk_score |-> deal_terms["risk_score"],
      risk_category |-> RiskCategory(deal_terms["risk_score"]),
      upfront_rent_percent |-> deal_terms["upfront_rent_percent"],
      equity_percent |-> deal_terms["equity_percent"],
      revenue_share_percent |-> deal_terms["revenue_share_percent"],
      monthly_rent |-> deal_terms["monthly_rent"] ]

\* now_generated is the datetime.now() of the "Generated:" line, now_valid the
\* one of the "Valid Until:" line
create_deal_proposal(bd, deal_terms, now_generated, now_valid) ==
    [ generated |-> MinuteOf(now_generated),
      proposal_id |-> bd["id"],
      valid_until |-> DayOf(now_valid) + 30,
      business_type |-> bd["business_type"],
      risk_score |-> deal_terms["risk_score"],
      risk_category |-> RiskCategory(deal_terms["risk_score"]),
      upfront_rent_percent |-> deal_terms["upfront_rent_percent"],
      equity_percent |-> deal_terms["equity_percent"],
      revenue_share_percent |-> deal_terms["revenue_share_percent"],
      monthly_rent |-> deal_terms["monthly_rent"] ]

\* ------------------------------------------------------------------------
\* create_contract_template: the figures the text is rendered from
\* ------------------------------------------------------------------------
\* now_entered is the datetime.now() of the "entered into on" line, now_date
\* the one of the "Date:" line
create_contract_template(deal, now_entered, now_date) ==
    [ entered_on |-> DayOf(now_entered),
      tenant |-> deal["business_name"],
      premises |-> deal["location"],
      space |-> deal["space_size"],
      base_rent |-> Get(deal, "monthly_rent", 0),
      market_rate |-> Get(deal, "monthly_market_rent", 0),
      upfront_percentage |-> Get(deal, "upfront_rent_percent", 300),
      deferred_amount |-> Get(deal, "deferred_amount", 0),
      equity_percentage |-> Get(deal, "equity_percent", 50),
      revenue_share |-> Get(deal, "revenue_share_percent", 30),
      duration |-> Get(deal, "revenue_share_years", 3),
      threshold |-> Get(deal, "revenue_trigger", 5000),
      date |-> DayOf(now_date),
      agreement_id |-> deal["id"] ]

\* ------------------------------------------------------------------------
\* State
\* ------------------------------------------------------------------------
VARIABLES
    file,        \* DEALS_FILE: [kind, deals]; kind is "missing", "malformed" or "json"
    clock,       \* the time the last datetime.now() returned
    issued,      \* how many uuid4 values have been handed out
    calls,       \* how many save_deal / update_deal_status calls have been made
    call,        \* the last completed call: its arguments and its result
    pc,          \* per session: where its save_deal / update_deal_status stands
    local,       \* per session: the arguments and the local `deals` of the running call
    history,     \* what the completed calls told their callers, and whether calls overlapped
    sc_pc,       \* calculate_risk_score: the block about to run
    base_score,  \* calculate_risk_score: the local variable base_score
    final_score, \* calculate_risk_score: the value returned
    tm           \* a function applied to inputs drawn at the start: the inputs and the results

storeVars == <<file, clock, issued, calls, call>>
sessionVars == <<pc, local, history>>
scoreVars == <<sc_pc, base_score, final_score>>
vars == <<file, clock, issued, calls, call, pc, local, history, sc_pc, base_score, final_score, tm>>

\* ------------------------------------------------------------------------
\* The deal store
\* ------------------------------------------------------------------------
None == "None"

MissingFile == [kind |-> "missing", deals |-> <<>>]

\* content json.load rejects with JSONDecodeError: an empty or truncated file
MalformedFile == [kind |-> "malformed", deals |-> <<>>]

\* json.dump(deals, f, indent=2, default=str) into the file opened with 'w'
save_deals(deals) == [kind |-> "json", deals |-> deals]

\* load_deals without the except clause for JSONDecodeError
load_deals_uncaught(f) ==
    IF f.kind = "json" THEN [raised |-> FALSE, value |-> f.deals]
    ELSE IF f.kind = "missing" THEN [raised |-> FALSE, value |-> <<>>]
    ELSE [raised |-> TRUE, value |-> <<>>]

\* json.load of the file; FileNotFoundError and JSONDecodeError give []
load_deals(f) ==
    IF f.kind = "json" THEN [raised |-> FALSE, value |-> f.deals]
    ELSE [raised |-> FALSE, value |-> <<>>]

initialize_database(f) == IF f.kind = "missing" THEN save_deals(<<>>) ELSE f

\* uuid4 returning the same value on every call
uuid4_fixed(n) == 1

\* str(uuid.uuid4()): the (n+1)-th value of a source that never repeats
uuid4(n) == n + 1

\* the record save_deal builds at lines 63-69
save_deal_record(business_data, deal_terms, proposal, now_created, now_updated) ==
    Merge(Merge(business_data, deal_terms),
          [proposal |-> proposal, created_at |-> now_created, updated_at |-> now_updated])

\* save_deal that writes the new record alone, forgetting the loaded list
save_deal_alone(deals, deal_record) == <<deal_record>>

\* deals.append(deal_record)
save_deal_append(deals, deal_record) == Append(deals, deal_record)

\* the index the for loop of get_deal_by_id / update_deal_status stops at, 0 if none
FirstMatch(deals, deal_id) ==
    IF \E i \in 1..Len(deals) : Get(deals[i], "id", None) = deal_id
    THEN CHOOSE i \in 1..Len(deals) :
            /\ Get(deals[i], "id", None) = deal_id
            /\ \A j \in 1..(i - 1) : Get(deals[j], "id", None) # deal_id
    ELSE 0

get_deal_by_id(deals, deal_id) ==
    IF FirstMatch(deals, deal_id) = 0 THEN None ELSE deals[FirstMatch(deals, deal_id)]

\* lines 94-99 with the two stamps exchanged
StampStatusSwapped(deal, new_status, now_updated, now_stamp) ==
    LET d == Put(Put(deal, "status", new_status), "updated_at", now_updated)
    IN  IF new_status = "approved" THEN Put(d, "rejected_at", now_stamp)
        ELSE IF new_status = "rejected" THEN Put(d, "approved_at", now_stamp)
        ELSE d

\* lines 94-99 behind a guard that lets only a pending deal change
StampStatusGuarded(deal, new_status, now_updated, now_stamp) ==
    IF Get(deal, "status", None) # "pending" THEN deal
    ELSE LET d == Put(Put(deal, "status", new_status), "updated_at", now_updated)
         IN  IF new_status = "approved" THEN Put(d, "approved_at", now_stamp)
             ELSE IF new_status = "rejected" THEN Put(d, "rejected_at", now_stamp)
             ELSE d

\* lines 94-99 also restamping created_at
StampStatusRecreated(deal, new_status, now_updated, now_stamp) ==
    LET d == Put(Put(Put(deal, "status", new_status), "updated_at", now_updated),
                 "created_at", now_updated)
    IN  IF new_status = "approved" THEN Put(d, "approved_at", now_stamp)
        ELSE IF new_status = "rejected" THEN Put(d, "rejected_at", now_stamp)
        ELSE d

\* lines 94-99 keeping one stamp only: the stamp of the other outcome is deleted
StampStatusExclusive(deal, new_status, now_updated, now_stamp) ==
    LET d == Put(Put(deal, "status", new_status), "updated_at", now_updated)
        drop(x, k) == [f \in (DOMAIN x) \ {k} |-> x[f]]
    IN  IF new_status = "approved" THEN Put(drop(d, "rejected_at"), "approved_at", now_stamp)
        ELSE IF new_status = "rejected" THEN Put(drop(d, "approved_at"), "rejected_at", now_stamp)
        ELSE d

\* lines 94-99: the assignments to the matching deal
StampStatus(deal, new_status, now_updated, now_stamp) ==
    LET d == Put(Put(deal, "status", new_status), "updated_at", now_updated)
    IN  IF new_status = "approved" THEN Put(d, "approved_at", now_stamp)
        ELSE IF new_status = "rejected" THEN Put(d, "rejected_at", now_stamp)
        ELSE d

\* the loop of lines 92-100 falling back to the last deal when nothing matches
update_deals_fallback(deals, deal_id, new_status, now_updated, now_stamp) ==
    LET m == FirstMatch(deals, deal_id)
        k == IF m = 0 THEN Len(deals) ELSE m
    IN  [i \in 1..Len(deals) |->
            IF i = k THEN StampStatus(deals[i], new_status, now_updated, now_stamp)
            ELSE deals[i]]

\* the loop of lines 92-100: the first deal with the id is changed, then break
update_deals(deals, deal_id, new_status, now_updated, now_stamp) ==
    LET m == FirstMatch(deals, deal_id)
    IN  [i \in 1..Len(deals) |->
            IF i = m THEN StampStatus(deals[i], new_status, now_updated, now_stamp)
            ELSE deals[i]]

\* ------------------------------------------------------------------------
\* Inputs
\* ------------------------------------------------------------------------
RestaurantProfile ==
    [ business_name |-> "Corner Bistro", business_type |-> "Restaurant",
      industry |-> "Food & Beverage", location |-> "Austin, TX",
      space_size |-> 1000, current_revenue |-> 0, projected_revenue_12m |-> 10000,
      team_size |-> 1, has_funding |-> FALSE, funding_raised |-> 0,
      runway_months |-> 2, founder_experience |-> "First-time founder",
      has_customers |-> FALSE, has_revenue |-> FALSE ]

SaaSProfile ==
    [ business_name |-> "TechStart Solutions", business_type |-> "SaaS Startup",
      industry |-> "Technology", location |-> "Manhattan, NY",
      space_size |-> 2000, current_revenue |-> 15000, projected_revenue_12m |-> 30000,
      team_size |-> 15, has_funding |-> TRUE, funding_raised |-> 1200000,
      runway_months |-> 24, founder_experience |-> "Previous successful exit",
      has_customers |-> TRUE, has_revenue |-> TRUE ]

\* what the form of show_tenant_form can submit
Profiles == {RestaurantProfile, SaaSProfile}

Statuses == {"pending", "approved", "rejected"}

\* ids a caller can pass: every id the model can issue, stored or not
DealIds == 1..MaxDeals

Times == 0..MaxClock

\* ------------------------------------------------------------------------
\* The handlers, each run to completion (one session at a time)
\* ------------------------------------------------------------------------
NoHistory == [returned |-> {}, status |-> <<>>, overlapped |-> FALSE]

\* what a completed call leaves in `call`; fields a call has no use for are None
Call(op, raised, deal_id, new_status, found, was, result) ==
    [op |-> op, raised |-> raised, deal_id |-> deal_id, new_status |-> new_status,
     found |-> found, was |-> was, result |-> result, stored |-> None]

\* the call, with the kind of DEALS_FILE its load_deals met
On(f, c) == [c EXCEPT !.stored = f.kind]

Init ==
    /\ file \in {MissingFile, MalformedFile, save_deals(<<>>)}
    /\ clock = 0
    /\ issued = 0
    /\ calls = 0
    /\ call = Call("none", FALSE, None, None, FALSE, None, None)
    /\ pc = <<>> /\ local = <<>> /\ history = NoHistory
    /\ sc_pc = "off" /\ base_score = 0 /\ final_score = None
    /\ tm = <<>>

Idle == UNCHANGED <<pc, local, history, sc_pc, base_score, final_score, tm>>

\* main(): initialize_database()
InitializeDatabase ==
    /\ file' = initialize_database(file)
    /\ call' = Call("initialize_database", FALSE, None, None, FALSE, None, None)
    /\ UNCHANGED <<clock, issued, calls>>
    /\ Idle

\* show_tenant_form, lines 646-686: the submit button with the required fields
\* filled.  The 'timestamp' entry of business_data is left out of the model.
SubmitApplication ==
    /\ issued < MaxDeals
    /\ calls < MaxCalls
    /\ calls' = calls + 1
    /\ \E profile \in Profiles :
       \E now_generated, now_valid, now_created, now_updated \in Times :
        /\ clock <= now_generated
        /\ now_generated <= now_valid
        /\ now_valid <= now_created
        /\ now_created <= now_updated
        /\ LET business_data ==
                   Merge(profile, [id |-> uuid4(issued), status |-> "pending"])
               risk_score == calculate_risk_score(business_data)
               deal_terms == generate_deal_terms(business_data, risk_score)
               proposal == create_deal_proposal(business_data, deal_terms,
                                        now_generated, now_valid)
               loaded == load_deals(file)
               deal_record ==
                   save_deal_record(business_data, deal_terms, proposal, now_created, now_updated)
           IN  /\ issued' = issued + 1
               /\ clock' = IF loaded.raised THEN now_valid ELSE now_updated
               /\ file' = IF loaded.raised THEN file
                          ELSE save_deals(save_deal_append(loaded.value, deal_record))
               /\ call' = On(file, Call("save_deal", loaded.raised, deal_record["id"], None,
                                        FALSE, None, deal_record))
    /\ Idle

\* update_deal_status(deal_id, new_status)
UpdateDealStatus ==
    /\ calls < MaxCalls
    /\ calls' = calls + 1
    /\ \E deal_id \in DealIds, new_status \in Statuses :
       \E now_updated, now_stamp \in Times :
        /\ clock <= now_updated
        /\ now_updated <= now_stamp
        /\ LET loaded == load_deals(file)
               m == FirstMatch(loaded.value, deal_id)
           IN  \* the clock is read only inside the if of line 93, and a second
               \* time only for 'approved' and 'rejected'
               /\ (m = 0) => now_updated = clock
               /\ (m = 0 \/ new_status = "pending") => now_stamp = now_updated
               /\ clock' = now_stamp
               /\ file' = IF loaded.raised THEN file
                          ELSE save_deals(update_deals(loaded.value, deal_id, new_status,
                                                       now_updated, now_stamp))
               /\ call' = On(file, Call("update_deal_status", loaded.raised, deal_id,
                                        new_status, m # 0,
                                        IF m = 0 THEN None
                                        ELSE Get(loaded.value[m], "status", None),
                                        None))
    /\ UNCHANGED issued
    /\ Idle

\* get_deals()
GetDeals ==
    /\ LET loaded == load_deals(file)
       IN  call' = Call("get_deals", loaded.raised, None, None, FALSE, None, loaded.value)
    /\ UNCHANGED <<file, clock, issued, calls>>
    /\ Idle

\* get_deal_by_id(deal_id)
GetDealById ==
    /\ \E deal_id \in DealIds :
        LET loaded == load_deals(file)
        IN  call' = Call("get_deal_by_id", loaded.raised, deal_id, None,
                         FirstMatch(loaded.value, deal_id) # 0, None,
                         get_deal_by_id(loaded.value, deal_id))
    /\ UNCHANGED <<file, clock, issued, calls>>
    /\ Idle

Next ==
    \/ InitializeDatabase
    \/ SubmitApplication
    \/ UpdateDealStatus
    \/ GetDeals
    \/ GetDealById

Spec == Init /\ [][Next]_vars

\* ------------------------------------------------------------------------
\* Properties of the store, one session at a time (Spec)
\* ------------------------------------------------------------------------
\* what load_deals returns for a file
StoredDeals(f) == load_deals(f).value

Ids(deals) == [i \in 1..Len(deals) |-> Get(deals[i], "id", None)]

\* a deal as the creation flow persists it
AsCreated(deal) ==
    /\ Get(deal, "status", None) = "pending"
    /\ "approved_at" \notin DOMAIN deal
    /\ "rejected_at" \notin DOMAIN deal

StatusFields == {"status", "updated_at", "approved_at", "rejected_at"}

\* a deal without its status field group
Frame(deal) == [k \in (DOMAIN deal) \ StatusFields |-> deal[k]]

\* C3: the creation flow persists the deal with status 'pending', and
\* update_deal_status(id, 'approved') applied to a deal as created leaves it
\* with status 'approved', approved_at present and rejected_at absent.
ThmC3 ==
    [][ /\ (call'.op = "save_deal") =>
            LET after == StoredDeals(file')
            IN  /\ Len(after) > 0
                /\ after[Len(after)] = call'.result
                /\ after[Len(after)]["status"] = "pending"
        /\ (call'.op = "update_deal_status" /\ call'.found /\ call'.new_status = "approved") =>
            LET m == FirstMatch(StoredDeals(file), call'.deal_id)
                was == StoredDeals(file)[m]
                now == StoredDeals(file')[m]
            IN  AsCreated(was) =>
                    /\ now["status"] = "approved"
                    /\ "approved_at" \in DOMAIN now
                    /\ "rejected_at" \notin DOMAIN now
      ]_vars

\* one application submitted, then approved
WitC3 ==
    /\ issued = 1 /\ calls = 2
    /\ call.op = "update_deal_status" /\ call.found /\ call.new_status = "approved"
    /\ StoredDeals(file)[1]["status"] = "approved"

\* C4: update_deal_status has no guard: whatever the status of the stored deal,
\* the call leaves the deal with the status it was given.
ThmC4 ==
    [][ (call'.op = "update_deal_status" /\ call'.found) =>
            LET m == FirstMatch(StoredDeals(file), call'.deal_id)
            IN  /\ call'.was = StoredDeals(file)[m]["status"]
                /\ StoredDeals(file')[m]["status"] = call'.new_status
      ]_vars

\* an approved deal set back to pending
WitC4 ==
    /\ call.op = "update_deal_status" /\ call.found
    /\ call.was = "approved" /\ call.new_status = "pending"
    /\ \E i \in 1..Len(StoredDeals(file)) :
        /\ StoredDeals(file)[i]["id"] = call.deal_id
        /\ StoredDeals(file)[i]["status"] = "pending"

\* the other transitions out of approved and rejected
ReachApprovedToRejected ==
    call.op = "update_deal_status" /\ call.found /\ call.was = "approved" /\ call.new_status = "rejected"

ReachRejectedToApproved ==
    call.op = "update_deal_status" /\ call.found /\ call.was = "rejected" /\ call.new_status = "approved"

ReachRejectedToPending ==
    call.op = "update_deal_status" /\ call.found /\ call.was = "rejected" /\ call.new_status = "pending"

\* C5: update_deal_status with an id no stored deal has raises nothing and
\* leaves the stored collection exactly as it was.
ThmC5 ==
    [][ (call'.op = "update_deal_status" /\ ~call'.found) =>
            /\ ~call'.raised
            /\ StoredDeals(file') = StoredDeals(file)
      ]_vars

\* an unknown id, with a deal in the store
WitC5 ==
    /\ call.op = "update_deal_status" /\ ~call.found /\ ~call.raised
    /\ Len(StoredDeals(file)) > 0

\* C6: update_deal_status changes nothing but status, updated_at, approved_at
\* and rejected_at of the deal with the id; every other deal is unchanged.
ThmC6 ==
    [][ (call'.op = "update_deal_status") =>
            LET before == StoredDeals(file)
                after == StoredDeals(file')
                m == FirstMatch(before, call'.deal_id)
            IN  /\ Len(after) = Len(before)
                /\ \A i \in 1..Len(before) :
                    IF i = m THEN Frame(after[i]) = Frame(before[i])
                    ELSE after[i] = before[i]
      ]_vars

\* two deals stored, one of them just updated
WitC6 ==
    /\ call.op = "update_deal_status" /\ call.found
    /\ Len(StoredDeals(file)) = 2
    /\ call.was # call.new_status

\* C7: no deal is ever removed: save_deal appends exactly one record,
\* update_deal_status keeps the number and order of the records, and every
\* id handed to save_deal stays in the store.
ThmC7 ==
    [][ /\ (call'.op = "save_deal") =>
            StoredDeals(file') = Append(StoredDeals(file), call'.result)
        /\ (call'.op = "update_deal_status") =>
            Ids(StoredDeals(file')) = Ids(StoredDeals(file))
        /\ \A i \in 1..Len(StoredDeals(file)) :
            /\ i <= Len(StoredDeals(file'))
            /\ Ids(StoredDeals(file'))[i] = Ids(StoredDeals(file))[i]
        /\ \A id \in 1..issued' :
            \E i \in 1..Len(StoredDeals(file')) : Ids(StoredDeals(file'))[i] = id
      ]_vars

\* a second deal saved after the first one was updated
WitC7 ==
    /\ call.op = "save_deal" /\ calls = 3
    /\ Len(StoredDeals(file)) = 2
    /\ StoredDeals(file)[1]["status"] # "pending"

\* C9: no two stored deals share an id, and no call changes the id of a
\* stored deal.
ThmC9 ==
    [][ /\ \A i, j \in 1..Len(StoredDeals(file')) :
            (i # j) => Ids(StoredDeals(file'))[i] # Ids(StoredDeals(file'))[j]
        /\ \A i \in 1..Len(StoredDeals(file)) :
            /\ i <= Len(StoredDeals(file'))
            /\ "id" \in DOMAIN StoredDeals(file')[i]
            /\ StoredDeals(file')[i]["id"] = StoredDeals(file)[i]["id"]
      ]_vars

\* two deals stored and one of them updated since
WitC9 ==
    /\ Len(StoredDeals(file)) = 2
    /\ StoredDeals(file)[1]["id"] # StoredDeals(file)[2]["id"]
    /\ call.op = "update_deal_status" /\ call.found

\* C10: with the file missing or its content malformed, get_deals returns the
\* empty list and get_deal_by_id returns None, and neither raises.
ThmC10 ==
    (file.kind \in {"missing", "malformed"}) =>
        /\ (call.op = "get_deals") => (~call.raised /\ call.result = <<>>)
        /\ (call.op = "get_deal_by_id") => (~call.raised /\ call.result = None)

\* get_deal_by_id on malformed content
WitC10 ==
    /\ file.kind = "malformed"
    /\ call.op = "get_deal_by_id" /\ ~call.raised /\ call.result = None

ReachGetDealsMissing ==
    file.kind = "missing" /\ call.op = "get_deals" /\ ~call.raised /\ call.result = <<>>


\* ------------------------------------------------------------------------
\* calculate_risk_score block by block (SpecScore)
\* ------------------------------------------------------------------------
\* Each block reads its own keys of business_data and no other block reads
\* them, so the value a block finds is chosen when the block runs.
OneKey(k, values) == {EmptyDict} \cup {(k :> v) : v \in values}

BusinessTypeInputs == OneKey("business_type", (DOMAIN business_type_risk) \cup {"Food Truck"})

IndustryInputs == OneKey("industry", (DOMAIN industry_risk) \cup {"Aerospace"})

RevenueInputs == OneKey("current_revenue", {0, 1000, 1001, 5000, 5001, 10000, 10001})

TeamSizeInputs == OneKey("team_size", {1, 2, 5, 6, 10, 11, 20, 21})

FundingInputs ==
    {EmptyDict} \cup
    {("has_funding" :> h) @@ ("funding_raised" :> a) :
        h \in BOOLEAN, a \in {0, 100000, 100001, 500000, 500001, 1000000, 1000001}}

RunwayInputs == OneKey("runway_months", {0, 2, 3, 5, 6, 12, 13, 18, 19})

ExperienceInputs ==
    OneKey("founder_experience", (DOMAIN experience_impact) \cup {"Academic"})

MarketValidationInputs ==
    {EmptyDict} \cup
    {("has_customers" :> c) @@ ("has_revenue" :> r) : c \in BOOLEAN, r \in BOOLEAN}

SpaceSizeInputs == OneKey("space_size", {100, 499, 500, 3000, 3001, 5000, 5001})

StoreOff ==
    /\ file = save_deals(<<>>) /\ clock = 0 /\ issued = 0 /\ calls = 0
    /\ call = Call("none", FALSE, None, None, FALSE, None, None)
    /\ pc = <<>> /\ local = <<>> /\ history = NoHistory

InitScore ==
    /\ StoreOff
    /\ sc_pc = "business_type" /\ base_score = BaseScore /\ final_score = None
    /\ tm = <<>>

ScoreBlock(at, adjustment, to) ==
    /\ sc_pc = at
    /\ base_score' = base_score + adjustment
    /\ sc_pc' = to
    /\ UNCHANGED <<final_score, tm>>
    /\ UNCHANGED storeVars
    /\ UNCHANGED sessionVars

ScoreBusinessType ==
    \E bd \in BusinessTypeInputs : ScoreBlock("business_type", BusinessTypeAdj(bd), "industry")

ScoreIndustry ==
    \E bd \in IndustryInputs : ScoreBlock("industry", IndustryAdj(bd), "revenue")

ScoreRevenue ==
    \E bd \in RevenueInputs : ScoreBlock("revenue", RevenueAdj(bd), "team_size")

ScoreTeamSize ==
    \E bd \in TeamSizeInputs : ScoreBlock("team_size", TeamSizeAdj(bd), "funding")

ScoreFunding ==
    \E bd \in FundingInputs : ScoreBlock("funding", FundingAdj(bd), "runway")

ScoreRunway ==
    \E bd \in RunwayInputs : ScoreBlock("runway", RunwayAdj(bd), "experience")

ScoreExperience ==
    \E bd \in ExperienceInputs : ScoreBlock("experience", ExperienceAdj(bd), "validation")

ScoreMarketValidation ==
    \E bd \in MarketValidationInputs :
        ScoreBlock("validation", MarketValidationAdj(bd), "space_size")

ScoreSpaceSize ==
    \E bd \in SpaceSizeInputs : ScoreBlock("space_size", SpaceSizeAdj(bd), "return")

ScoreReturn ==
    /\ sc_pc = "return"
    /\ final_score' = FinalScore(base_score)
    /\ sc_pc' = "done"
    /\ UNCHANGED <<base_score, tm>>
    /\ UNCHANGED storeVars
    /\ UNCHANGED sessionVars

NextScore ==
    \/ ScoreBusinessType
    \/ ScoreIndustry
    \/ ScoreRevenue
    \/ ScoreTeamSize
    \/ ScoreFunding
    \/ ScoreRunway
    \/ ScoreExperience
    \/ ScoreMarketValidation
    \/ ScoreSpaceSize
    \/ ScoreReturn

SpecScore == InitScore /\ [][NextScore]_vars

\* C1: whatever the profile, calculate_risk_score returns s with 5 <= s <= 95.
ThmC1 == (sc_pc = "done") => (5 <= final_score /\ final_score <= 95)

\* a profile whose adjustments add up to more than 95
WitC1 == sc_pc = "done" /\ base_score > 95 /\ final_score = 95

ReachScoreFloor == sc_pc = "done" /\ base_score < 5 /\ final_score = 5

\* ------------------------------------------------------------------------
\* generate_deal_terms on two risk scores (SpecTerms)
\* ------------------------------------------------------------------------
\* whole-number scores, as calculate_risk_score returns them, on both sides of
\* every clamp
RiskScores == (50 - ScoreSpan)..(50 + ScoreSpan)

InitTerms ==
    /\ StoreOff
    /\ sc_pc = "off" /\ base_score = 0 /\ final_score = None
    /\ tm \in {[bd |-> p, s1 |-> a, s2 |-> b, applied |-> FALSE, t1 |-> None, t2 |-> None] :
                p \in Profiles, a \in RiskScores, b \in RiskScores}

GenerateTerms ==
    /\ ~tm.applied
    /\ tm' = [tm EXCEPT !.applied = TRUE,
                        !.t1 = generate_deal_terms(tm.bd, tm.s1),
                        !.t2 = generate_deal_terms(tm.bd, tm.s2)]
    /\ UNCHANGED storeVars
    /\ UNCHANGED sessionVars
    /\ UNCHANGED scoreVars

NextTerms == GenerateTerms

SpecTerms == InitTerms /\ [][NextTerms]_vars

\* C2: for a fixed profile and risk scores s1 <= s2, upfront_rent_percent,
\* equity_percent and revenue_share_percent of the terms for s1 are each at
\* most those of the terms for s2.
ThmC2 ==
    (tm.applied /\ tm.s1 <= tm.s2) =>
        /\ tm.t1["upfront_rent_percent"] <= tm.t2["upfront_rent_percent"]
        /\ tm.t1["equity_percent"] <= tm.t2["equity_percent"]
        /\ tm.t1["revenue_share_percent"] <= tm.t2["revenue_share_percent"]

\* two scores between the clamps, all three values strictly larger for the larger
WitC2 ==
    /\ tm.applied /\ tm.s1 < tm.s2
    /\ tm.t1["upfront_rent_percent"] > 200 /\ tm.t2["upfront_rent_percent"] < 500
    /\ tm.t1["upfront_rent_percent"] < tm.t2["upfront_rent_percent"]
    /\ tm.t1["equity_percent"] < tm.t2["equity_percent"]
    /\ tm.t1["revenue_share_percent"] < tm.t2["revenue_share_percent"]

\* every floor and every ceiling is met inside RiskScores
ReachAllClamps ==
    /\ tm.applied
    /\ tm.t1["upfront_rent_percent"] = 200 /\ tm.t2["upfront_rent_percent"] = 500
    /\ tm.t1["equity_percent"] = 20 /\ tm.t2["equity_percent"] = 120
    /\ tm.t1["revenue_share_percent"] = 10 /\ tm.t2["revenue_share_percent"] = 60


\* ------------------------------------------------------------------------
\* Two sessions, no lock (SpecSessions)
\* ------------------------------------------------------------------------
\* Streamlit runs the script of each browser session in a thread of its own.
\* load_deals and save_deals are each one step; between the load_deals and the
\* save_deals of one call the other session can run.
Sessions == {1, 2}

\* what either session submits
SessionProfiles == {SaaSProfile}

NoFrame == [op |-> "none", deal_id |-> None, new_status |-> None, found |-> FALSE,
            result |-> None, deals |-> <<>>]

InitSessions ==
    /\ file \in {MissingFile, MalformedFile, save_deals(<<>>)}
    /\ clock = 0 /\ issued = 0 /\ calls = 0
    /\ call = Call("none", FALSE, None, None, FALSE, None, None)
    /\ pc = [p \in Sessions |-> "idle"]
    /\ local = [p \in Sessions |-> NoFrame]
    /\ history = NoHistory
    /\ sc_pc = "off" /\ base_score = 0 /\ final_score = None
    /\ tm = <<>>

Overlap(p) == history.overlapped \/ \E q \in Sessions \ {p} : pc[q] # "idle"

\* show_tenant_form lines 646-686 and save_deal up to deals.append (line 71)
BeginSaveDeal(p) ==
    /\ pc[p] = "idle"
    /\ issued < MaxDeals
    /\ calls < MaxCalls
    /\ calls' = calls + 1
    /\ \E profile \in SessionProfiles :
       \E now_generated, now_valid, now_created, now_updated \in Times :
        /\ clock <= now_generated
        /\ now_generated <= now_valid
        /\ now_valid <= now_created
        /\ now_created <= now_updated
        /\ LET business_data ==
                   Merge(profile, [id |-> uuid4(issued), status |-> "pending"])
               risk_score == calculate_risk_score(business_data)
               deal_terms == generate_deal_terms(business_data, risk_score)
               proposal == create_deal_proposal(business_data, deal_terms,
                                        now_generated, now_valid)
               loaded == load_deals(file)
               deal_record ==
                   save_deal_record(business_data, deal_terms, proposal, now_created, now_updated)
           IN  /\ issued' = issued + 1
               /\ clock' = IF loaded.raised THEN now_valid ELSE now_updated
               /\ IF loaded.raised
                  THEN /\ call' = Call("save_deal", TRUE, deal_record["id"], None,
                                       FALSE, None, None)
                       /\ UNCHANGED <<pc, local>>
                  ELSE /\ pc' = [pc EXCEPT ![p] = "loaded"]
                       /\ local' = [local EXCEPT ![p] =
                               [op |-> "save_deal", deal_id |-> deal_record["id"],
                                new_status |-> None, found |-> FALSE,
                                result |-> deal_record,
                                deals |-> save_deal_append(loaded.value, deal_record)]]
                       /\ UNCHANGED call
    /\ history' = [history EXCEPT !.overlapped = Overlap(p)]
    /\ UNCHANGED file
    /\ UNCHANGED <<sc_pc, base_score, final_score, tm>>

\* update_deal_status lines 90-100
BeginUpdateDealStatus(p) ==
    /\ pc[p] = "idle"
    /\ calls < MaxCalls
    /\ calls' = calls + 1
    /\ \E deal_id \in DealIds, new_status \in Statuses :
       \E now_updated, now_stamp \in Times :
        /\ clock <= now_updated
        /\ now_updated <= now_stamp
        /\ LET loaded == load_deals(file)
               m == FirstMatch(loaded.value, deal_id)
           IN  /\ (m = 0) => now_updated = clock
               /\ (m = 0 \/ new_status = "pending") => now_stamp = now_updated
               /\ clock' = now_stamp
               /\ IF loaded.raised
                  THEN /\ call' = Call("update_deal_status", TRUE, deal_id, new_status,
                                       FALSE, None, None)
                       /\ UNCHANGED <<pc, local>>
                  ELSE /\ pc' = [pc EXCEPT ![p] = "loaded"]
                       /\ local' = [local EXCEPT ![p] =
                               [op |-> "update_deal_status", deal_id |-> deal_id,
                                new_status |-> new_status, found |-> m # 0,
                                result |-> None,
                                deals |-> update_deals(loaded.value, deal_id, new_status,
                                                       now_updated, now_stamp)]]
                       /\ UNCHANGED call
    /\ history' = [history EXCEPT !.overlapped = Overlap(p)]
    /\ UNCHANGED <<file, issued>>
    /\ UNCHANGED <<sc_pc, base_score, final_score, tm>>

\* save_deals(deals) and the return: lines 72-74 and line 102
Finish(p) ==
    /\ pc[p] = "loaded"
    /\ file' = save_deals(local[p].deals)
    /\ pc' = [pc EXCEPT ![p] = "idle"]
    /\ local' = [local EXCEPT ![p] = NoFrame]
    /\ call' = Call(local[p].op, FALSE, local[p].deal_id, local[p].new_status,
                    local[p].found, None, local[p].result)
    /\ history' =
        IF local[p].op = "save_deal"
        THEN [history EXCEPT !.returned = @ \cup {local[p].deal_id}]
        ELSE IF local[p].found
        THEN [history EXCEPT !.status = Put(@, local[p].deal_id, local[p].new_status)]
        ELSE history
    /\ UNCHANGED <<clock, issued, calls>>
    /\ UNCHANGED <<sc_pc, base_score, final_score, tm>>

NextSessions ==
    \/ \E p \in Sessions : BeginSaveDeal(p)
    \/ \E p \in Sessions : BeginUpdateDealStatus(p)
    \/ \E p \in Sessions : Finish(p)

SpecSessions == InitSessions /\ [][NextSessions]_vars

\* a deal save_deal returned is not in the store
LostDeal ==
    \E id \in history.returned :
        \A i \in 1..Len(StoredDeals(file)) : StoredDeals(file)[i]["id"] # id

\* a deal does not have the status its last completed update_deal_status gave it
RevertedStatus ==
    \E id \in DOMAIN history.status :
        \E i \in 1..Len(StoredDeals(file)) :
            /\ StoredDeals(file)[i]["id"] = id
            /\ StoredDeals(file)[i]["status"] # history.status[id]

\* C8: a returned deal goes missing or a completed status change is undone
\* only when the load and save steps of two calls interleaved, and no call
\* reports an error.
ThmC8 ==
    /\ ~call.raised
    /\ (LostDeal \/ RevertedStatus) => history.overlapped

\* both sessions are back, and a deal save_deal returned is gone
WitC8 ==
    /\ \A p \in Sessions : pc[p] = "idle"
    /\ history.overlapped /\ ~call.raised
    /\ LostDeal

ReachRevertedStatus ==
    /\ \A p \in Sessions : pc[p] = "idle"
    /\ history.overlapped /\ ~call.raised
    /\ RevertedStatus /\ ~LostDeal

\* the status change is undone by an update_deal_status whose id is not found
ReachRevertedByNotFound ==
    /\ \A p \in Sessions : pc[p] = "idle"
    /\ RevertedStatus /\ ~LostDeal
    /\ call.op = "update_deal_status" /\ ~call.found

\* ------------------------------------------------------------------------
\* The landlord dashboard: show_filter_section, filter_deals, show_deal_card
\* (SpecFilter)
\* ------------------------------------------------------------------------
FilterAll == "All"

\* risk_ranges cut where the labels of show_deal_card are cut
risk_ranges_half_open ==
    ("Low (0-40)" :> <<0, 39>>) @@ ("Medium (41-70)" :> <<40, 69>>)
        @@ ("High (71-100)" :> <<70, 100>>)

\* risk_ranges with neighbouring ranges sharing their end
risk_ranges_shared_ends ==
    ("Low (0-40)" :> <<0, 40>>) @@ ("Medium (41-70)" :> <<40, 70>>)
        @@ ("High (71-100)" :> <<70, 100>>)

risk_ranges ==
    ("Low (0-40)" :> <<0, 40>>) @@ ("Medium (41-70)" :> <<41, 70>>)
        @@ ("High (71-100)" :> <<71, 100>>)

\* the options of the "Risk Level" selectbox
RiskFilters == {FilterAll} \cup DOMAIN risk_ranges

\* df[df[column] == value]: the rows that pass, in their order
WhereEquals(df, column, value) == SelectSeq(df, LAMBDA deal : deal[column] = value)

WhereBetween(df, column, min, max) ==
    SelectSeq(df, LAMBDA deal : deal[column] >= min /\ deal[column] <= max)

filter_deals(df, status_filter, business_type_filter, location_filter, risk_filter) ==
    LET by_status == IF status_filter # FilterAll
                     THEN WhereEquals(df, "status", status_filter) ELSE df
        by_type == IF business_type_filter # FilterAll
                   THEN WhereEquals(by_status, "business_type", business_type_filter)
                   ELSE by_status
        by_location == IF location_filter # FilterAll
                       THEN WhereEquals(by_type, "location", location_filter)
                       ELSE by_type
    IN  IF risk_filter # FilterAll
        THEN WhereBetween(by_location, "risk_score",
                          risk_ranges[risk_filter][1], risk_ranges[risk_filter][2])
        ELSE by_location

\* show_deal_card, lines 862-864
risk_label(deal) ==
    LET risk_score == Get(deal, "risk_score", 50)
    IN  IF risk_score < 40 THEN "Low"
        ELSE IF risk_score < 70 THEN "Medium"
        ELSE "High"

\* df['column'].unique().tolist()
Unique(df, column) == {df[i][column] : i \in 1..Len(df)}

\* the scores calculate_risk_score can return
ListedScores == {FinalScore(s) : s \in RiskScores}

\* the columns of a stored deal the dashboard reads; risk_category is the
\* "Risk Category" line of the deal's proposal
ListedDeal(profile, id, status, risk_score) ==
    [ id |-> id, business_name |-> profile["business_name"],
      business_type |-> profile["business_type"], location |-> profile["location"],
      status |-> status, risk_score |-> risk_score,
      risk_category |-> RiskCategory(risk_score) ]

\* two stored deals: one of any status and score, one as the Restaurant
\* profile is created
Listings ==
    { <<ListedDeal(SaaSProfile, 1, st, s),
        ListedDeal(RestaurantProfile, 2, "pending", calculate_risk_score(RestaurantProfile))>> :
      st \in Statuses, s \in ListedScores }

InitFilter ==
    /\ StoreOff
    /\ sc_pc = "off" /\ base_score = 0 /\ final_score = None
    /\ \E df \in Listings :
       \E status_filter \in {FilterAll} \cup Unique(df, "status"),
          business_type_filter \in {FilterAll} \cup Unique(df, "business_type"),
          location_filter \in {FilterAll} \cup Unique(df, "location"),
          risk_filter \in RiskFilters :
        tm = [ df |-> df, status_filter |-> status_filter,
               business_type_filter |-> business_type_filter,
               location_filter |-> location_filter, risk_filter |-> risk_filter,
               shown |-> FALSE, filtered_df |-> <<>>, labels |-> <<>> ]

\* show_landlord_dashboard: show_filter_section, then show_deal_management
\* with a card for every row of filtered_df
ShowDealManagement ==
    /\ ~tm.shown
    /\ LET filtered_df == filter_deals(tm.df, tm.status_filter, tm.business_type_filter,
                                       tm.location_filter, tm.risk_filter)
       IN  tm' = [tm EXCEPT !.shown = TRUE,
                            !.filtered_df = filtered_df,
                            !.labels = [i \in 1..Len(filtered_df) |->
                                            risk_label(filtered_df[i])]]
    /\ UNCHANGED storeVars
    /\ UNCHANGED sessionVars
    /\ UNCHANGED scoreVars

NextFilter == ShowDealManagement

SpecFilter == InitFilter /\ [][NextFilter]_vars

Shown(df, deal) == \E i \in 1..Len(df) : df[i] = deal

\* the buckets as closed intervals of whole scores
InBucket(risk_score, risk_filter) ==
    CASE risk_filter = "Low (0-40)" -> 0 <= risk_score /\ risk_score <= 40
      [] risk_filter = "Medium (41-70)" -> 41 <= risk_score /\ risk_score <= 70
      [] risk_filter = "High (71-100)" -> 71 <= risk_score /\ risk_score <= 100
      [] OTHER -> TRUE

\* C11: with the other three filters passed, the risk filter returns a deal
\* exactly when its score lies in Low = [0,40], Medium = [41,70] or
\* High = [71,100], both ends included: 40 is returned by Low and not by
\* Medium, 41 and 70 by Medium only, 71 by High only.
ThmC11 ==
    tm.shown =>
        \A i \in 1..Len(tm.df) :
            LET deal == tm.df[i]
                others == /\ tm.status_filter \in {FilterAll, deal["status"]}
                          /\ tm.business_type_filter \in {FilterAll, deal["business_type"]}
                          /\ tm.location_filter \in {FilterAll, deal["location"]}
            IN  /\ Shown(tm.filtered_df, deal)
                    <=> (others /\ InBucket(deal["risk_score"], tm.risk_filter))
                /\ (others /\ deal["risk_score"] = 40) =>
                    (Shown(tm.filtered_df, deal)
                        <=> tm.risk_filter \in {FilterAll, "Low (0-40)"})
                /\ (others /\ deal["risk_score"] \in {41, 70}) =>
                    (Shown(tm.filtered_df, deal)
                        <=> tm.risk_filter \in {FilterAll, "Medium (41-70)"})
                /\ (others /\ deal["risk_score"] = 71) =>
                    (Shown(tm.filtered_df, deal)
                        <=> tm.risk_filter \in {FilterAll, "High (71-100)"})

\* a deal with score 40 listed under the Low filter
WitC11 ==
    /\ tm.shown /\ tm.risk_filter = "Low (0-40)"
    /\ tm.df[1]["risk_score"] = 40
    /\ Shown(tm.filtered_df, tm.df[1])

ReachMediumEnds ==
    /\ tm.shown /\ tm.risk_filter = "Medium (41-70)"
    /\ tm.df[1]["risk_score"] = 70
    /\ tm.filtered_df = <<tm.df[1]>>

\* ------------------------------------------------------------------------
\* generate_deal_terms over space sizes and scores (SpecRent)
\* ------------------------------------------------------------------------
\* min_value of the "Space Size (sq ft)" input
MinSpaceSize == 100

\* the sizes next to the minimum, and the sizes 1000, 1200 and 2000
SpaceSizes == (MinSpaceSize..(MinSpaceSize + SpaceSpan)) \cup {1000, 1200, 2000}

InitRent ==
    /\ StoreOff
    /\ sc_pc = "off" /\ base_score = 0 /\ final_score = None
    /\ tm \in {[bd |-> Merge(p, [space_size |-> n]), risk_score |-> s,
                applied |-> FALSE, terms |-> None] :
                p \in Profiles, n \in SpaceSizes, s \in ListedScores}

GenerateRent ==
    /\ ~tm.applied
    /\ tm' = [tm EXCEPT !.applied = TRUE,
                        !.terms = generate_deal_terms(tm.bd, tm.risk_score)]
    /\ UNCHANGED storeVars
    /\ UNCHANGED sessionVars
    /\ UNCHANGED scoreVars

NextRent == GenerateRent

SpecRent == InitRent /\ [][NextRent]_vars

\* C12 as stated: monthly_market_rent is (space_size * 25) / 12 exactly, and
\* annual_market_rent is space_size * 25.
CexC12 ==
    tm.applied =>
        /\ 12 * tm.terms["monthly_market_rent"] = tm.bd["space_size"] * 25
        /\ tm.terms["annual_market_rent"] = tm.bd["space_size"] * 25

\* C12, amended: monthly_market_rent is (space_size * 25) / 12 rounded to the
\* nearest whole unit, so it is within half a unit of the quotient and equal
\* to it when space_size is a multiple of 12 (2500 for 1200);
\* annual_market_rent is space_size * 25.
ThmC12 ==
    tm.applied =>
        LET space_size == tm.bd["space_size"]
            error == 12 * tm.terms["monthly_market_rent"] - space_size * 25
        IN  /\ -6 <= error /\ error <= 6
            /\ (space_size % 12 = 0) => error = 0
            /\ (space_size = 1200) => tm.terms["monthly_market_rent"] = 2500
            /\ tm.terms["annual_market_rent"] = space_size * 25

\* 1000 square feet: 25000 / 12 = 2083.33 is returned as 2083
WitC12 ==
    /\ tm.applied /\ tm.bd["space_size"] = 1000
    /\ tm.terms["monthly_market_rent"] = 2083
    /\ tm.terms["annual_market_rent"] = 25000

ReachExactRent ==
    /\ tm.applied /\ tm.bd["space_size"] = 1200
    /\ tm.terms["monthly_market_rent"] = 2500

\* C13: in the terms returned, monthly_rent + deferred_amount =
\* monthly_market_rent, for every space_size and every risk_score in [5, 95].
CexC13 ==
    tm.applied =>
        tm.terms["monthly_rent"] + tm.terms["deferred_amount"]
            = tm.terms["monthly_market_rent"]

\* ------------------------------------------------------------------------
\* calculate_risk_score and generate_deal_terms on whole profiles (SpecProfile)
\* ------------------------------------------------------------------------
\* a profile whose adjustments keep the sum between the two limits
WorkshopProfile ==
    [ business_name |-> "Harbor Tooling", business_type |-> "Manufacturing",
      industry |-> "Education", location |-> "Austin, TX",
      space_size |-> 1000, current_revenue |-> 6000, projected_revenue_12m |-> 9000,
      team_size |-> 3, has_funding |-> FALSE, funding_raised |-> 0,
      runway_months |-> 8, founder_experience |-> "Serial entrepreneur",
      has_customers |-> FALSE, has_revenue |-> FALSE ]

\* base with the entries under keys replaced by each of the inputs; the empty
\* input leaves the keys out of the dict
Vary(base, keys, inputs) ==
    {Merge([k \in (DOMAIN base) \ keys |-> base[k]], input) : input \in inputs}

\* each base profile, and each with the entries of one block of
\* calculate_risk_score varied
VariedProfiles(base) ==
    {base}
    \cup Vary(base, {"business_type"}, BusinessTypeInputs)
    \cup Vary(base, {"industry"}, IndustryInputs)
    \cup Vary(base, {"current_revenue"}, RevenueInputs)
    \cup Vary(base, {"team_size"}, TeamSizeInputs)
    \cup Vary(base, {"has_funding", "funding_raised"}, FundingInputs)
    \cup Vary(base, {"runway_months"}, RunwayInputs)
    \cup Vary(base, {"founder_experience"}, ExperienceInputs)
    \cup Vary(base, {"has_customers", "has_revenue"}, MarketValidationInputs)
    \cup Vary(base, {"space_size"}, SpaceSizeInputs)

ScoredProfiles ==
    VariedProfiles(RestaurantProfile) \cup VariedProfiles(SaaSProfile)
        \cup VariedProfiles(WorkshopProfile)

\* what each block of calculate_risk_score adds to base_score
Adjustments(bd) ==
    [ business_type |-> BusinessTypeAdj(bd), industry |-> IndustryAdj(bd),
      revenue |-> RevenueAdj(bd), team_size |-> TeamSizeAdj(bd),
      funding |-> FundingAdj(bd), runway |-> RunwayAdj(bd),
      experience |-> ExperienceAdj(bd), validation |-> MarketValidationAdj(bd),
      space_size |-> SpaceSizeAdj(bd) ]

InitProfile ==
    /\ StoreOff
    /\ sc_pc = "off" /\ base_score = 0 /\ final_score = None
    /\ tm \in {[bd |-> bd, scored |-> FALSE, adjustments |-> None,
                risk_score |-> None, terms |-> None] : bd \in ScoredProfiles}

\* show_tenant_form lines 681-682: the score of the profile, then its terms
ScoreProfile ==
    /\ ~tm.scored
    /\ LET risk_score == calculate_risk_score(tm.bd)
       IN  tm' = [tm EXCEPT !.scored = TRUE,
                            !.adjustments = Adjustments(tm.bd),
                            !.risk_score = risk_score,
                            !.terms = generate_deal_terms(tm.bd, risk_score)]
    /\ UNCHANGED storeVars
    /\ UNCHANGED sessionVars
    /\ UNCHANGED scoreVars

NextProfile == ScoreProfile

SpecProfile == InitProfile /\ [][NextProfile]_vars

\* C14 as stated: the Restaurant profile scores at least 90 and its terms
\* carry upfront_rent_percent = 50.
CexC14 ==
    (tm.scored /\ tm.bd = RestaurantProfile) =>
        /\ tm.risk_score >= 90
        /\ tm.terms["upfront_rent_percent"] = 500

\* C14, amended: the Restaurant profile scores 95, the upper limit, and its
\* terms carry upfront_rent_percent = 43.5, under the ceiling of 50.
ThmC14 ==
    (tm.scored /\ tm.bd = RestaurantProfile) =>
        /\ tm.risk_score = 95
        /\ tm.terms["upfront_rent_percent"] = 435

WitC14 ==
    /\ tm.scored /\ tm.bd = RestaurantProfile
    /\ tm.risk_score = 95 /\ tm.terms["upfront_rent_percent"] = 435

\* C15 as stated: the SaaS profile scores 5 and its terms carry upfront 20,
\* equity 2, revenue share 1 and 4 revenue share years.
CexC15 ==
    (tm.scored /\ tm.bd = SaaSProfile) =>
        /\ tm.risk_score = 5
        /\ tm.terms["upfront_rent_percent"] = 200
        /\ tm.terms["equity_percent"] = 20
        /\ tm.terms["revenue_share_percent"] = 10
        /\ tm.terms["revenue_share_years"] = 4

\* C15, amended: the SaaS profile scores 5 and its terms carry upfront 20,
\* equity 2, revenue share 1.2 (above its floor of 1) and 4 revenue share years.
ThmC15 ==
    (tm.scored /\ tm.bd = SaaSProfile) =>
        /\ tm.risk_score = 5
        /\ tm.terms["upfront_rent_percent"] = 200
        /\ tm.terms["equity_percent"] = 20
        /\ tm.terms["revenue_share_percent"] = 12
        /\ tm.terms["revenue_share_years"] = 4

WitC15 ==
    /\ tm.scored /\ tm.bd = SaaSProfile
    /\ tm.risk_score = 5 /\ tm.terms["revenue_share_percent"] = 12

\* C16: an unrecognized business_type, industry or founder_experience gets
\* the adjustment of the default ('Other' +10, 'Other' +8, 'First-time
\* founder' +10), and so does a missing one.
CexC16 ==
    tm.scored =>
        /\ Get(tm.bd, "business_type", "Other") \notin (DOMAIN business_type_risk) \ {"Other"}
            => tm.adjustments.business_type = 10
        /\ Get(tm.bd, "industry", "Other") \notin (DOMAIN industry_risk) \ {"Other"}
            => tm.adjustments.industry = 8
        /\ Get(tm.bd, "founder_experience", "First-time founder")
                \notin (DOMAIN experience_impact) \ {"First-time founder"}
            => tm.adjustments.experience = 10

\* a missing business_type is scored as 'Other'
ReachMissingDefault ==
    /\ tm.scored /\ "business_type" \notin DOMAIN tm.bd
    /\ tm.adjustments.business_type = 10

\* an unrecognized business_type adds nothing
ReachUnknownZero ==
    /\ tm.scored /\ Get(tm.bd, "business_type", "Other") = "Food Truck"
    /\ tm.adjustments.business_type = 0

Sum(a) ==
    a.business_type + a.industry + a.revenue + a.team_size + a.funding
        + a.runway + a.experience + a.validation + a.space_size

\* C17: the runway block adds -10 for runway > 18, -5 for 13..18, 0 for 6..12
\* and +15 for every runway below 6; +25 is never added, and the block
\* contributes once to the sum the score is clamped from.
ThmC17 ==
    tm.scored =>
        LET runway == Get(tm.bd, "runway_months", 0)
            added == tm.adjustments.runway
        IN  /\ (runway > 18) => added = -10
            /\ (13 <= runway /\ runway <= 18) => added = -5
            /\ (6 <= runway /\ runway <= 12) => added = 0
            /\ (runway < 6) => added = 15
            /\ added # 25
            /\ tm.risk_score = Max(5, Min(95, BaseScore + Sum(tm.adjustments)))

\* two months of runway on the Workshop profile: 25 + 15
WitC17 ==
    /\ tm.scored /\ tm.bd = [WorkshopProfile EXCEPT !["runway_months"] = 2]
    /\ tm.adjustments.runway = 15
    /\ tm.risk_score = 40

\* ------------------------------------------------------------------------
\* The two time stamps of save_deal (Spec)
\* ------------------------------------------------------------------------
\* C18: the record save_deal returns and persists has created_at equal to
\* updated_at, even when the clock advances between two reads of it.
CexC18 ==
    (call.op = "save_deal" /\ ~call.raised) =>
        LET stored == StoredDeals(file)[Len(StoredDeals(file))]
        IN  /\ call.result["created_at"] = call.result["updated_at"]
            /\ stored["created_at"] = stored["updated_at"]

\* the clock found advanced at the second read
ReachStampsApart ==
    /\ call.op = "save_deal"
    /\ call.result["created_at"] < call.result["updated_at"]

\* ------------------------------------------------------------------------
\* The renderers called twice on the same arguments (SpecRender)
\* ------------------------------------------------------------------------
RenderTimes == 0..MaxRenderClock

\* a profile as show_tenant_form hands it on, its terms, and the deal made of
\* both
InitRender ==
    /\ StoreOff
    /\ sc_pc = "off" /\ base_score = 0 /\ final_score = None
    /\ \E profile \in Profiles \cup {WorkshopProfile} :
        LET business_data == Merge(profile, [id |-> uuid4(issued), status |-> "pending"])
            deal_terms == generate_deal_terms(business_data,
                                              calculate_risk_score(business_data))
        IN  tm = [ bd |-> business_data, terms |-> deal_terms,
                   deal |-> Merge(business_data, deal_terms),
                   proposals |-> <<>>, contracts |-> <<>> ]

\* create_deal_proposal(business_data, deal_terms): two reads of the clock
RenderProposal ==
    /\ Len(tm.proposals) < 2
    /\ \E now_generated, now_valid \in RenderTimes :
        /\ clock <= now_generated
        /\ now_generated <= now_valid
        /\ clock' = now_valid
        /\ tm' = [tm EXCEPT !.proposals =
                    Append(@, [at |-> <<now_generated, now_valid>>,
                               text |-> create_deal_proposal(tm.bd, tm.terms,
                                                             now_generated, now_valid)])]
    /\ UNCHANGED <<file, issued, calls, call>>
    /\ UNCHANGED sessionVars
    /\ UNCHANGED scoreVars

\* create_contract_template(deal): two reads of the clock
RenderContract ==
    /\ Len(tm.contracts) < 2
    /\ \E now_entered, now_date \in RenderTimes :
        /\ clock <= now_entered
        /\ now_entered <= now_date
        /\ clock' = now_date
        /\ tm' = [tm EXCEPT !.contracts =
                    Append(@, [at |-> <<now_entered, now_date>>,
                               text |-> create_contract_template(tm.deal,
                                                                 now_entered, now_date)])]
    /\ UNCHANGED <<file, issued, calls, call>>
    /\ UNCHANGED sessionVars
    /\ UNCHANGED scoreVars

NextRender == RenderProposal \/ RenderContract

SpecRender == InitRender /\ [][NextRender]_vars

\* a rendered text without the lines named
Without(text, lines) == [k \in (DOMAIN text) \ lines |-> text[k]]

\* C19 as stated: the same arguments give the same text at any two times.
CexC19 ==
    /\ (Len(tm.proposals) = 2) => tm.proposals[1].text = tm.proposals[2].text
    /\ (Len(tm.contracts) = 2) => tm.contracts[1].text = tm.contracts[2].text

\* C19, amended: the same arguments give texts that differ at most in the
\* lines taken from the clock ("Generated:" and "Valid Until:" of the
\* proposal, the two dates of the contract), and the two texts are the same
\* exactly when those lines are: the proposal's when the calls fall in the
\* same minute and on the same day, the contract's when they fall on the same
\* day.
ThmC19 ==
    /\ (Len(tm.proposals) = 2) =>
        LET a == tm.proposals[1]
            b == tm.proposals[2]
        IN  /\ Without(a.text, {"generated", "valid_until"})
                = Without(b.text, {"generated", "valid_until"})
            /\ (a.text = b.text)
                <=> (MinuteOf(a.at[1]) = MinuteOf(b.at[1]) /\ DayOf(a.at[2]) = DayOf(b.at[2]))
    /\ (Len(tm.contracts) = 2) =>
        LET a == tm.contracts[1]
            b == tm.contracts[2]
        IN  /\ Without(a.text, {"entered_on", "date"}) = Without(b.text, {"entered_on", "date"})
            /\ (a.text = b.text)
                <=> (DayOf(a.at[1]) = DayOf(b.at[1]) /\ DayOf(a.at[2]) = DayOf(b.at[2]))

\* the same proposal rendered a minute apart, and the same contract a day apart
WitC19 ==
    /\ Len(tm.proposals) = 2 /\ Len(tm.contracts) = 2
    /\ tm.proposals[1].text["generated"] # tm.proposals[2].text["generated"]
    /\ tm.contracts[1].text["date"] # tm.contracts[2].text["date"]

\* two calls inside one minute return the same proposal
ReachSameMinute ==
    /\ Len(tm.proposals) = 2
    /\ tm.proposals[1].at # tm.proposals[2].at
    /\ tm.proposals[1].text = tm.proposals[2].text

\* ------------------------------------------------------------------------
\* The risk category shown for a listed deal (SpecFilter)
\* ------------------------------------------------------------------------
\* the label and the proposal's category that go with each risk filter
BucketLabel ==
    ("Low (0-40)" :> "Low") @@ ("Medium (41-70)" :> "Medium") @@ ("High (71-100)" :> "High")

BucketCategory ==
    ("Low (0-40)" :> "LOW RISK") @@ ("Medium (41-70)" :> "MEDIUM RISK")
        @@ ("High (71-100)" :> "HIGH RISK")

\* C20: for every score in [5, 95], the label of the deal card and the "Risk
\* Category" line of the proposal name the bucket under whose filter the deal
\* is listed; 40 is labelled Low and 70 Medium.
CexC20 ==
    (tm.shown /\ tm.risk_filter # FilterAll) =>
        \A i \in 1..Len(tm.filtered_df) :
            /\ tm.labels[i] = BucketLabel[tm.risk_filter]
            /\ tm.filtered_df[i]["risk_category"] = BucketCategory[tm.risk_filter]

\* a deal with score 40, listed under Low, carrying the Medium label
ReachLowLabelledMedium ==
    /\ tm.shown /\ tm.risk_filter = "Low (0-40)"
    /\ \E i \in 1..Len(tm.filtered_df) :
        /\ tm.filtered_df[i]["risk_score"] = 40
        /\ tm.labels[i] = "Medium"
        /\ tm.filtered_df[i]["risk_category"] = "MEDIUM RISK"

\* a deal with score 70, listed under Medium, carrying the High label
ReachMediumLabelledHigh ==
    /\ tm.shown /\ tm.risk_filter = "Medium (41-70)"
    /\ \E i \in 1..Len(tm.filtered_df) :
        /\ tm.filtered_df[i]["risk_score"] = 70
        /\ tm.labels[i] = "High"
        /\ tm.filtered_df[i]["risk_category"] = "HIGH RISK"

\* every other score is labelled as it is filtered
OnlyTheEndsDiffer ==
    (tm.shown /\ tm.risk_filter # FilterAll) =>
        \A i \in 1..Len(tm.filtered_df) :
            tm.filtered_df[i]["risk_score"] \notin {40, 70} =>
                /\ tm.labels[i] = BucketLabel[tm.risk_filter]
                /\ tm.filtered_df[i]["risk_category"] = BucketCategory[tm.risk_filter]

\* ------------------------------------------------------------------------
\* The status field group over the life of a deal (Spec)
\* ------------------------------------------------------------------------
\* the status is a known one, and the stamp of an outcome is there when the
\* status names the outcome
StatusStamped(deal) ==
    /\ Get(deal, "status", None) \in Statuses
    /\ (Get(deal, "status", None) = "approved") => "approved_at" \in DOMAIN deal
    /\ (Get(deal, "status", None) = "rejected") => "rejected_at" \in DOMAIN deal

\* stamp is in the deal after the step only if it was there before or the step
\* is update_deal_status(deal's id, outcome); a stamp there before is still
\* there (a repeated outcome overwrites its time)
StampKept(was, now, stamp, outcome) ==
    /\ (stamp \in DOMAIN was) => (stamp \in DOMAIN now)
    /\ (stamp \in DOMAIN now /\ stamp \notin DOMAIN was) =>
        /\ call'.op = "update_deal_status"
        /\ call'.new_status = outcome
        /\ call'.deal_id = now["id"]

\* C21: every stored deal has status pending, approved or rejected; approved
\* comes with approved_at and rejected with rejected_at; a deal is created
\* without either stamp and gets one only from update_deal_status with that
\* outcome; a stamp once present is never removed, so an approved deal can
\* carry the rejected_at of an earlier rejection.
ThmC21 ==
    [][ LET before == StoredDeals(file)
            after == StoredDeals(file')
        IN  /\ Len(after) >= Len(before)
            /\ \A i \in 1..Len(after) :
                /\ StatusStamped(after[i])
                /\ IF i > Len(before)
                   THEN /\ "approved_at" \notin DOMAIN after[i]
                        /\ "rejected_at" \notin DOMAIN after[i]
                   ELSE /\ StampKept(before[i], after[i], "approved_at", "approved")
                        /\ StampKept(before[i], after[i], "rejected_at", "rejected")
      ]_vars

\* a deal rejected, then approved: approved, with both stamps
WitC21 ==
    /\ call.op = "update_deal_status" /\ call.found
    /\ call.was = "rejected" /\ call.new_status = "approved"
    /\ \E i \in 1..Len(StoredDeals(file)) :
        LET deal == StoredDeals(file)[i]
        IN  /\ deal["id"] = call.deal_id
            /\ deal["status"] = "approved"
            /\ "approved_at" \in DOMAIN deal
            /\ "rejected_at" \in DOMAIN deal

\* a deal set back to pending keeps the stamp of its approval
ReachPendingWithStamp ==
    \E i \in 1..Len(StoredDeals(file)) :
        /\ StoredDeals(file)[i]["status"] = "pending"
        /\ "approved_at" \in DOMAIN StoredDeals(file)[i]

\* a second approval moves approved_at to the time of the second call
ReachRestamped ==
    /\ call.op = "update_deal_status" /\ call.found
    /\ call.was = "approved" /\ call.new_status = "approved"
    /\ \E i \in 1..Len(StoredDeals(file)) :
        /\ StoredDeals(file)[i]["id"] = call.deal_id
        /\ StoredDeals(file)[i]["approved_at"] > StoredDeals(file)[i]["created_at"]

\* ------------------------------------------------------------------------
\* Mutating calls over a missing or malformed DEALS_FILE (Spec)
\* ------------------------------------------------------------------------
\* C22: over a missing or malformed file a mutating call does not fail and
\* does not keep the old content: after save_deal the file is a well-formed
\* list holding the new deal alone, after update_deal_status it is the
\* well-formed empty list.
ThmC22 ==
    (call.stored \in {"missing", "malformed"}) =>
        /\ ~call.raised
        /\ file.kind = "json"
        /\ (call.op = "save_deal") => file.deals = <<call.result>>
        /\ (call.op = "update_deal_status") => (file.deals = <<>> /\ ~call.found)

\* an application submitted over a malformed file
WitC22 ==
    /\ call.op = "save_deal" /\ call.stored = "malformed"
    /\ file = save_deals(<<call.result>>)

ReachUpdateOverMalformed ==
    /\ call.op = "update_deal_status" /\ call.stored = "malformed"
    /\ file = save_deals(<<>>)

ReachSaveOverMissing ==
    /\ call.op = "save_deal" /\ call.stored = "missing"
    /\ file = save_deals(<<call.result>>)

\* initialize_database leaves a malformed file as it is
ReachMalformedKept ==
    /\ call.op = "initialize_database" /\ file = MalformedFile

\* ------------------------------------------------------------------------
\* A scored deal listed under each risk level in turn (SpecListing)
\* ------------------------------------------------------------------------
\* The blocks of calculate_risk_score run as in SpecScore; the deal that
\* carries the score returned is then listed with the risk filter set to
\* each of the three levels and the other filters at "All", under which the
\* other columns of the deal play no part.
ListScoredDeal ==
    /\ sc_pc = "done"
    /\ sc_pc' = "listed"
    /\ LET deal == ListedDeal(WorkshopProfile, 1, "pending", final_score)
       IN  tm' = [ deal |-> deal,
                   under |-> [risk_filter \in DOMAIN risk_ranges |->
                                filter_deals(<<deal>>, FilterAll, FilterAll, FilterAll,
                                             risk_filter)] ]
    /\ UNCHANGED <<base_score, final_score>>
    /\ UNCHANGED storeVars
    /\ UNCHANGED sessionVars

NextListing == NextScore \/ ListScoredDeal

SpecListing == InitScore /\ [][NextListing]_vars

\* the levels under which the listed deal is returned
ReturnedUnder == {risk_filter \in DOMAIN risk_ranges : Len(tm.under[risk_filter]) > 0}

\* C23: the score of a created deal is a whole number from 5 to 95, so it is
\* in exactly one of [0,40], [41,70], [71,100]: with the risk filter set to
\* each level in turn the deal is returned exactly once.
ThmC23 ==
    (sc_pc = "listed") =>
        /\ final_score \in 5..95
        /\ Cardinality(ReturnedUnder) = 1
        /\ \A risk_filter \in ReturnedUnder : tm.under[risk_filter] = <<tm.deal>>

\* a score of 41, next above the end of Low, returned under Medium alone
WitC23 ==
    /\ sc_pc = "listed" /\ final_score = 41
    /\ ReturnedUnder = {"Medium (41-70)"}

ReachListedAt40 == sc_pc = "listed" /\ final_score = 40 /\ ReturnedUnder = {"Low (0-40)"}

ReachListedAt70 == sc_pc = "listed" /\ final_score = 70 /\ ReturnedUnder = {"Medium (41-70)"}

ReachListedAt71 == sc_pc = "listed" /\ final_score = 71 /\ ReturnedUnder = {"High (71-100)"}

====
